---- MODULE Spec2Model ----
(***************************************************************************)
(* Skills Agent: the two-layer execution graph (graph.py, nodes.py), the   *)
(* L2 skill memory (memory.py) and the Tool Security Gateway (tools.py).   *)
(*                                                                         *)
(* Python strings are modelled as sequences of tokens (one token per       *)
(* character or per fixed prompt fragment), dictionaries as sequences of   *)
(* <<key, value>> pairs in insertion order, and the 0-based                *)
(* current_step_index addresses steps[current_step_index + 1].             *)
(***************************************************************************)
EXTENDS Integers, Sequences, FiniteSets, TLC

(* ---------------------------- bounds ----------------------------------- *)

\* longest plan the planner's model returns
MaxSteps == 2
\* largest configured max_retries
MaxRetries == 2
\* largest number of tool calls in one optimizer response (responses after
\* the first tool execution of a step carry at most one)
MaxToolCalls == 2

\* longest parameter value of a gateway request
MaxValLen == 2
\* longest script name of a safe_py_runner request, in path tokens
MaxPathLen == 3
\* longest argument and longest environment key of a safe_py_runner request
MaxArgLen == 2
\* longest environment value of a safe_py_runner request
MaxEnvValLen == 1
\* most lines of a skill file handed to _append_skill_learning
MaxFileLines == 4
MaxTextLen == 5

_EVALUATOR_MAX_TOOL_ROUNDS == 5

(* ------------------------ program constants ---------------------------- *)

_ANCHOR_EVERY_N_TOOL_CALLS == 3
_STUCK_LOOP_THRESHOLD == 8

(* --------------------------- state ------------------------------------- *)

VARIABLES
    \* AgentState, as the nodes read and write it
    steps, current_step_index, step_retry_count, max_retries,
    skill_memory, messages, last_evaluation,
    step_tool_call_count, current_loop_count, plan_approved,
    \* the graph's position: the node that runs next
    node,
    \* observers: the node that ran last, the number of messages the last
    \* prepare_step_context removed (0 after any other node), and the number
    \* of optimizer_agent -> evaluator_agent transitions since the step
    \* became current or was last escalated
    prev, cleared, opt_eval_count,
    \* what the operator answered to the escalation that was just resumed
    \* ("" when no escalation was just resumed); no node reads it
    operator_answer,
    \* what became of the plan at the approval prompt: "pending" until
    \* main.run gets there, then "no_steps", "rejected" or "approved"
    plan_decision,
    \* the number of times commit_step has run
    commits,
    \* one request to safe_cli_executor and what came of it
    cli_tool_name, cli_params, cli_result,
    \* one request to safe_py_runner, whether the script file exists, and
    \* what came of the request
    py_script_name, py_args, py_env_vars, py_exists, py_result,
    \* the text of the skill file (skills.md)
    skill_file,
    \* one call of _append_skill_learning: the file text it found, the section
    \* and the content it was given, and whether it has returned
    md_existing, md_section, md_content, md_done,
    \* one application of a path-separator normalisation: which one ("text"
    \* for _to_windows_paths, "params" for _normalise_path_params), its
    \* argument, the tool whose rules it was given, and its result once it
    \* has returned
    norm_kind, norm_in, norm_tool, norm_out, norm_done,
    \* one pass of evaluator_agent seen from inside: whether it was entered
    \* and whether it returned, step_retry_count at entry, the rounds of tool
    \* execution of Phase 1, the requests for a structured verdict, and the
    \* local message list the pass worked on
    eval_pass

agent_vars == <<steps, current_step_index, step_retry_count, max_retries,
                skill_memory, messages, last_evaluation,
                step_tool_call_count, current_loop_count, plan_approved,
                node, prev, cleared, opt_eval_count, operator_answer,
                plan_decision, commits>>

cli_vars == <<cli_tool_name, cli_params, cli_result>>

py_vars == <<py_script_name, py_args, py_env_vars, py_exists, py_result>>

md_vars == <<md_existing, md_section, md_content, md_done>>

norm_vars == <<norm_kind, norm_in, norm_tool, norm_out, norm_done>>

tool_vars == <<cli_vars, py_vars, md_vars, norm_vars, eval_pass>>

vars == <<agent_vars, cli_vars, py_vars, skill_file, md_vars, norm_vars, eval_pass>>

(* ------------------------- helpers ------------------------------------- *)

\* s is a prefix of t
IsPrefix(s, t) == Len(s) <= Len(t) /\ SubSeq(t, 1, Len(s)) = s

\* str.join: the strings of `parts` with `sep` between neighbours
RECURSIVE Join(_, _)
Join(parts, sep) ==
    IF parts = <<>> THEN <<>>
    ELSE IF Len(parts) = 1 THEN parts[1]
    ELSE parts[1] \o sep \o Join(Tail(parts), sep)

(* ------------------------- models.py ----------------------------------- *)

EvalResult == {"PASS", "FAIL"}

\* the plan the tests use: one StepSchema per index
StepSchema(i) ==
    [index |-> i,
     optimizer_instruction |-> IF i = 0 THEN "Do X" ELSE "Do Y",
     evaluator_instruction |-> IF i = 0 THEN "X done" ELSE "Y done"]

\* key_outputs dictionaries an evaluator may return
KeyOutputs ==
    { <<>>,
      << <<"k1", "v1">>, <<"k2", "v2">> >> }

EvaluationOutput(verdict, feedback, key_outputs) ==
    [verdict |-> verdict, feedback |-> feedback, key_outputs |-> key_outputs]

\* EvaluationOutput.model_dump_json / model_validate_json: the JSON text is
\* a tagged wrapper around the fields, the empty string is no JSON document
model_dump_json(e) == <<"json", e>>
model_validate_json(s) == s[2]

(* ------------------------- memory.py ----------------------------------- *)

\* f"{k}={v}" for one entry
KvLine(kv) == <<kv[1], "=", kv[2]>>

\* mutant: the new entries replace the memory instead of extending it
append_skill_memory_overwrite(current, key_outputs) ==
    IF key_outputs = <<>> THEN current
    ELSE Join([i \in 1..Len(key_outputs) |-> KvLine(key_outputs[i])], <<"\n">>)

append_skill_memory(current, key_outputs) ==
    IF key_outputs = <<>> THEN current
    ELSE LET new_entries ==
                 Join([i \in 1..Len(key_outputs) |-> KvLine(key_outputs[i])],
                      <<"\n">>)
         IN  IF current # <<>> THEN current \o <<"\n">> \o new_entries
             ELSE new_entries

format_skill_memory(memory) ==
    IF memory = <<>> THEN <<"(empty)">> ELSE memory

(* --------------------- L3 messages (add_messages) ---------------------- *)

\* a message: id 0 is "no id yet" (assigned by the reducer)
Msg(type, content, tool_calls) ==
    [type |-> type, id |-> 0, content |-> content, tool_calls |-> tool_calls]

SystemMessage(content) == Msg("system", content, 0)
HumanMessage(content) == Msg("human", content, 0)
AIMessage(content, tool_calls) == Msg("ai", content, tool_calls)
ToolMessage(content) == Msg("tool", content, 0)
RemoveMessage(id) == [type |-> "remove", id |-> id, content |-> <<>>, tool_calls |-> 0]

Ids(msgs) == {msgs[i].id : i \in 1..Len(msgs)}

MaxId(msgs) ==
    LET ids == Ids(msgs)
    IN  IF ids = {} THEN 0 ELSE CHOOSE m \in ids : \A x \in ids : x <= m

\* ids of messages without one: fresh with respect to both lists
AssignIds(left, right) ==
    LET used == Ids(left) \cup Ids(right)
        base == IF \A x \in used : x <= Len(left) THEN Len(left)
                ELSE MaxId(left \o right)
    IN  [j \in 1..Len(right) |->
            IF right[j].id = 0 THEN [right[j] EXCEPT !.id = base + j]
            ELSE right[j]]

\* the last position of `right` that carries this id, 0 when there is none
LastIndexWithId(right, id) ==
    LET at == {j \in 1..Len(right) : right[j].id = id}
    IN  IF at = {} THEN 0 ELSE CHOOSE j \in at : \A k \in at : k <= j

\* the merge loop of the reducer: a message of `right` whose id is known
\* replaces the message of that id or, for a RemoveMessage, marks it for
\* deletion (the last message of an id decides); a message with an unknown
\* id is appended (a RemoveMessage of an unknown id raises ValueError: no
\* node builds one)
MergeMessages(left, right) ==
    LET known == Ids(left)
        touched == Ids(right) \cap known
        updated == [i \in 1..Len(left) |->
                       LET j == LastIndexWithId(right, left[i].id)
                       IN  IF j = 0 THEN left[i] ELSE right[j]]
        appended == SelectSeq(right, LAMBDA m : m.id \notin known
                                                 /\ m.type # "remove")
    IN  IF touched = {} THEN left \o right
        ELSE SelectSeq(updated, LAMBDA m : m.type # "remove") \o appended

\* message ids are opaque (uuid4) and only ever compared for equality
\* inside one list: the list is kept with its ids renamed to 1..n
Renumber(msgs) ==
    IF \A i \in 1..Len(msgs) : msgs[i].id = i THEN msgs
    ELSE [i \in 1..Len(msgs) |-> [msgs[i] EXCEPT !.id = i]]

add_messages(left, right) ==
    Renumber(MergeMessages(left, AssignIds(left, right)))

MessageTypes(msgs) == [i \in 1..Len(msgs) |-> msgs[i].type]

(* --------------------------- routers ----------------------------------- *)

\* mutant: off by one at the end of the plan
route_step_off_by_one(idx, plan) ==
    IF idx > Len(plan) THEN "end" ELSE "prepare_step_context"

route_step(idx, plan) ==
    IF idx >= Len(plan) THEN "end" ELSE "prepare_step_context"

_ATTEMPTS_COMPLETE_SIGNAL == "[ATTEMPTS_COMPLETE]"

\* str.strip(): leading and trailing whitespace tokens removed
RECURSIVE str_strip(_)
str_strip(text) ==
    IF text = <<>> THEN text
    ELSE IF Head(text) = " " THEN str_strip(Tail(text))
    ELSE IF text[Len(text)] = " " THEN str_strip(SubSeq(text, 1, Len(text) - 1))
    ELSE text

\* str.startswith for a one-token prefix
startswith(text, prefix) == Len(text) >= 1 /\ text[1] = prefix

\* mutant: every response goes to the evaluator, tool calls or not
route_optimizer_output_always_evaluate(msgs, loop_count) == "evaluator_agent"

\* mutant: text without the completion signal goes back to the optimizer
route_optimizer_output_signal_only(msgs, loop_count) ==
    LET last_msg == msgs[Len(msgs)]
    IN  IF last_msg.tool_calls > 0 /\ loop_count > _STUCK_LOOP_THRESHOLD
        THEN "prepare_step_context"
        ELSE IF last_msg.tool_calls > 0 THEN "tool_executor"
        ELSE IF startswith(str_strip(last_msg.content), _ATTEMPTS_COMPLETE_SIGNAL)
        THEN "evaluator_agent"
        ELSE "optimizer_agent"

\* mutant: the stuck-loop guard is left out
route_optimizer_output_no_stuck_guard(msgs, loop_count) ==
    IF msgs[Len(msgs)].tool_calls > 0 THEN "tool_executor" ELSE "evaluator_agent"

route_optimizer_output(msgs, loop_count) ==
    LET last_msg == msgs[Len(msgs)]
    IN  IF last_msg.tool_calls > 0 /\ loop_count > _STUCK_LOOP_THRESHOLD
        THEN "prepare_step_context"
        ELSE IF last_msg.tool_calls > 0 THEN "tool_executor"
        ELSE IF startswith(str_strip(last_msg.content), _ATTEMPTS_COMPLETE_SIGNAL)
        THEN "evaluator_agent"
        ELSE "evaluator_agent"

\* mutant: a FAIL never escalates
route_evaluator_output_no_escalation(evaluation_json, retry_count, maxr) ==
    LET evaluation == model_validate_json(evaluation_json)
    IN  IF evaluation.verdict = "PASS" THEN "commit_step" ELSE "optimizer_agent"

\* mutant: off by one in the retry budget
route_evaluator_output_off_by_one(evaluation_json, retry_count, maxr) ==
    LET evaluation == model_validate_json(evaluation_json)
    IN  IF evaluation.verdict = "PASS" THEN "commit_step"
        ELSE IF retry_count <= maxr THEN "optimizer_agent"
        ELSE "human_intervention"

\* mutant: a FAIL within the retry budget is committed like a PASS
route_evaluator_output_commits_fail(evaluation_json, retry_count, maxr) ==
    LET evaluation == model_validate_json(evaluation_json)
    IN  IF evaluation.verdict = "PASS" THEN "commit_step"
        ELSE IF retry_count < maxr THEN "commit_step"
        ELSE "human_intervention"

route_evaluator_output(evaluation_json, retry_count, maxr) ==
    LET evaluation == model_validate_json(evaluation_json)
    IN  IF evaluation.verdict = "PASS" THEN "commit_step"
        ELSE IF retry_count < maxr THEN "optimizer_agent"
        ELSE "human_intervention"

(* ------------------- graph.py: conditional edge maps ------------------- *)

StepEdges == [prepare_step_context |-> "prepare_step_context", end |-> "END"]

OptimizerEdges == [tool_executor |-> "tool_executor",
                   evaluator_agent |-> "evaluator_agent"]

EvaluatorEdges == [commit_step |-> "commit_step",
                   optimizer_agent |-> "optimizer_agent",
                   human_intervention |-> "human_intervention"]

\* the node a conditional edge leads to; a route that is no key of the
\* path map makes the graph raise (KeyError) and the run stops
Destination(edges, route) ==
    IF route \in DOMAIN edges THEN edges[route] ELSE "error"


(* ----------------------------------------------------------------------- *)
(* tools.py: the Tool Security Gateway                                     *)
(* ----------------------------------------------------------------------- *)

\* characters of parameter values: a word character, the two path
\* separators and a shell metacharacter
Chars == {"a", "/", "\\", ";"}

Strings(n) == UNION {[1..k -> Chars] : k \in 0..n}

\* a declared regex: ^[class]+$ (min_len 1) or ^[class]*$ (min_len 0);
\* escaped_backslash says whether the pattern text contains an escaped
\* backslash
Rule(class, min_len, escaped_backslash) ==
    [class |-> class, min_len |-> min_len, escaped_backslash |-> escaped_backslash]

Lit(text) == <<"lit", text>>
Slot(key) == <<"slot", key>>

\* config/tools_config.yaml: the allow-list (params in declaration order)
\* and the blocked patterns
_CONFIG ==
    [cli_whitelist |->
        [list_files |->
            [template |-> <<Lit("dir "), Slot("path")>>,
             params |-> << <<"path", Rule({"a", "\\"}, 1, TRUE)>> >>,
             timeout |-> 10],
         word_count |->
            [template |-> <<Lit("find /c /v "), Slot("path")>>,
             params |-> << <<"path", Rule({"a", "/"}, 1, FALSE)>> >>,
             timeout |-> 10],
         write_txt |->
            [template |-> <<Lit("python scripts\\write_txt.py "), Slot("path"),
                            Lit(" "), Slot("content")>>,
             params |-> << <<"path", Rule({"a", "\\"}, 1, TRUE)>>,
                           <<"content", Rule(Chars, 0, FALSE)>> >>,
             timeout |-> 30],
         search_text |->
            [template |-> <<Lit("findstr "), Slot("content"), Lit(" "), Slot("path")>>,
             params |-> << <<"content", Rule({"a", "\\", ";"}, 1, TRUE)>>,
                           <<"path", Rule({"a", "\\"}, 1, TRUE)>> >>,
             timeout |-> 30],
         git_status |->
            [template |-> <<Lit("git status")>>,
             params |-> <<>>,
             timeout |-> 10]],
     blocked_patterns |-> << <<";", ";">> >>]

ParamKeys == {"path", "content"}

\* requests: a tool name, allow-listed or not, and a str -> str mapping
ToolNames == DOMAIN _CONFIG.cli_whitelist \cup {"dangerous_tool"}
ParamMaps == UNION {[D -> Strings(MaxValLen)] : D \in SUBSET ParamKeys}

\* re.search of a literal pattern: it occurs somewhere in the text
re_search(pattern, text) ==
    \E i \in 1..(Len(text) - Len(pattern) + 1) :
        SubSeq(text, i, i + Len(pattern) - 1) = pattern

\* mutant: re.match, which accepts a value when a prefix of it matches
re_match(rule, value) ==
    rule.min_len = 0 \/ (Len(value) >= 1 /\ value[1] \in rule.class)

\* re.fullmatch of a declared regex
re_fullmatch(rule, value) ==
    /\ Len(value) >= rule.min_len
    /\ \A i \in 1..Len(value) : value[i] \in rule.class

\* str.replace(old, new) for a one-character `old`
str_replace(text, old, new) ==
    Join([i \in 1..Len(text) |-> IF text[i] = old THEN new ELSE <<text[i]>>], <<>>)

\* the empty pattern text "" that param_rules.get(key, "") defaults to
NoRule == Rule({}, 0, FALSE)

\* param_rules.get(key, "")
RuleOf(param_rules, key) ==
    IF \E i \in 1..Len(param_rules) : param_rules[i][1] = key
    THEN (CHOOSE r \in {param_rules[i] : i \in 1..Len(param_rules)} : r[1] = key)[2]
    ELSE NoRule

_normalise_path_params(params, param_rules) ==
    [key \in DOMAIN params |->
        LET rule == RuleOf(param_rules, key)
        IN  IF rule.escaped_backslash \/ key \in {"path", "src", "dst"}
            THEN str_replace(params[key], "/", <<"\\">>)
            ELSE params[key]]

\* characters shlex.quote leaves alone
ShlexSafe == {"a", "/"}

shlex_quote(value) ==
    IF value = <<>> THEN <<"'", "'">>
    ELSE IF \A i \in 1..Len(value) : value[i] \in ShlexSafe THEN value
    ELSE <<"'">> \o str_replace(value, "'", <<"'", "\"", "'", "\"", "'">>) \o <<"'">>

\* mutant: the scan of the assembled command is left out
_check_blocked_patterns_off(command) == FALSE

_check_blocked_patterns(command) ==
    \E i \in 1..Len(_CONFIG.blocked_patterns) :
        re_search(_CONFIG.blocked_patterns[i], command)

Raise(exception, message) == [raised |-> exception, message |-> message,
                              command |-> <<>>, timeout |-> 0]
Built(command, timeout) == [raised |-> "", message |-> "",
                            command |-> command, timeout |-> timeout]

\* params.get(pname, "")
DictGet(params, key, default) ==
    IF key \in DOMAIN params THEN params[key] ELSE default

_validate_and_build(tool_name, params0) ==
    IF tool_name \notin DOMAIN _CONFIG.cli_whitelist
    THEN Raise("ToolSecurityError", "is not in the whitelist")
    ELSE
    LET spec == _CONFIG.cli_whitelist[tool_name]
        template == spec.template
        param_rules == spec.params
        params == _normalise_path_params(params0, param_rules)
        quoted == [k \in DOMAIN params |-> shlex_quote(params[k])]
        slots == {template[i][2] : i \in {j \in 1..Len(template) : template[j][1] = "slot"}}
        command == Join([i \in 1..Len(template) |->
                            IF template[i][1] = "slot" THEN quoted[template[i][2]]
                            ELSE <<template[i][2]>>], <<>>)
    IN  IF \E i \in 1..Len(param_rules) :
               ~re_fullmatch(param_rules[i][2], DictGet(params, param_rules[i][1], <<>>))
        THEN Raise("ToolSecurityError", "does not match allowed pattern")
        ELSE IF ~(slots \subseteq DOMAIN quoted)
        THEN Raise("KeyError", "template.format")
        ELSE IF _check_blocked_patterns(command)
        THEN Raise("ToolSecurityError", "blocked by security policy")
        ELSE Built(command, spec.timeout)

\* what subprocess.run does with a command
RunOutcomes == {"exit_zero", "exit_nonzero", "timeout"}

_run_command(command, timeout, outcome) ==
    IF outcome = "timeout" THEN <<"[ERROR]", "Command timed out">> \o command
    ELSE IF outcome = "exit_nonzero" THEN <<"stdout", "[EXIT CODE]">>
    ELSE <<"stdout">>

\* the result of a call: the returned string, or the exception that
\* escaped; spawned says whether subprocess.run was reached
Returned(text, spawned) == [raised |-> "", text |-> text, spawned |-> spawned]
Escaped(exception) == [raised |-> exception, text |-> <<>>, spawned |-> FALSE]
NoResult == [raised |-> "", text |-> <<"(pending)">>, spawned |-> FALSE]

safe_cli_executor(tool_name, params, outcome) ==
    LET built == _validate_and_build(tool_name, params)
    IN  IF built.raised = ""
        THEN Returned(_run_command(built.command, built.timeout, outcome), TRUE)
        ELSE IF built.raised = "ToolSecurityError"
        THEN Returned(<<"[SECURITY BLOCKED]", built.message>>, FALSE)
        ELSE Escaped(built.raised)


(* ------------------------- safe_py_runner ------------------------------ *)

\* a script name is a sequence of path tokens: whole names, the parent
\* reference and the two separators
PathTokens == {"scripts", "skills", "..", "a.py", "/", "\\"}
ScriptNames == UNION {[1..k -> PathTokens] : k \in 0..MaxPathLen}

\* characters of arguments and environment values: one of the restricted
\* alphabet, one shell metacharacter, the newline
ArgChars == {"a", ";", "\n"}
ArgLists ==
    {<<>>} \cup {<<arg>> : arg \in UNION {[1..k -> ArgChars] : k \in 0..MaxArgLen}}

\* characters of environment keys: upper case, digit, lower case, newline
KeyChars == {"A", "1", "a", "\n"}
EnvMaps ==
    {<<>>} \cup
    {[key \in {k} |-> v] :
        k \in UNION {[1..n -> KeyChars] : n \in 1..MaxArgLen},
        v \in UNION {[1..n -> ArgChars] : n \in 0..MaxEnvValLen}}

\* PROJECT_ROOT and the two approved directories, as path components
PROJECT_ROOT == << <<"proj">> >>
scripts_dir == PROJECT_ROOT \o << <<"scripts">> >>
skills_dir == PROJECT_ROOT \o << <<"skills">> >>

\* the components of a "/"-separated name (empty ones included)
RECURSIVE SplitPath(_)
SplitPath(name) ==
    IF \A i \in 1..Len(name) : name[i] # "/" THEN <<name>>
    ELSE LET i == CHOOSE j \in 1..Len(name) :
                      name[j] = "/" /\ \A k \in 1..(j - 1) : name[k] # "/"
         IN  <<SubSeq(name, 1, i - 1)>> \o SplitPath(SubSeq(name, i + 1, Len(name)))

\* PROJECT_ROOT / name: an absolute name replaces the root
PathJoin(root, name) ==
    IF Len(name) >= 1 /\ name[1] = "/" THEN SplitPath(name)
    ELSE root \o SplitPath(name)

\* Path.resolve() on a file system without symbolic links: empty
\* components vanish, ".." drops the component before it
RECURSIVE Resolve(_, _)
Resolve(parts, acc) ==
    IF parts = <<>> THEN acc
    ELSE IF Head(parts) = <<>> THEN Resolve(Tail(parts), acc)
    ELSE IF Head(parts) = <<"..">>
    THEN Resolve(Tail(parts),
                 IF acc = <<>> THEN acc ELSE SubSeq(acc, 1, Len(acc) - 1))
    ELSE Resolve(Tail(parts), Append(acc, Head(parts)))

is_relative_to(path, dir) == IsPrefix(dir, path)

\* candidate.suffix == ".py": the last component ends with ".py"
SuffixIsPy(path) ==
    /\ path # <<>>
    /\ LET name == path[Len(path)] IN name[Len(name)] = "a.py"

\* pattern.match for ^[class]+$ or ^[class]*$: "$" also matches just
\* before a newline that ends the value
anchored_match(class, min_len, value) ==
    LET body == IF Len(value) >= 1 /\ value[Len(value)] = "\n"
                THEN SubSeq(value, 1, Len(value) - 1) ELSE value
        inside(v) == Len(v) >= min_len /\ \A i \in 1..Len(v) : v[i] \in class
    IN  inside(value) \/ inside(body)

\* ^[a-zA-Z0-9_./:@=-]+$ and ^[a-zA-Z0-9_./:@=-]*$
RestrictedAlphabet == {"a"}
arg_pattern(value) == anchored_match(RestrictedAlphabet, 1, value)
env_val_pattern(value) == anchored_match(RestrictedAlphabet, 0, value)

\* ^[A-Z_][A-Z0-9_]*$
env_key_pattern(key) ==
    /\ Len(key) >= 1
    /\ key[1] = "A"
    /\ anchored_match({"A", "1"}, 0, Tail(key))

safe_py_runner(script_name, args, env_vars, exists, outcome) ==
    LET normalised_name == str_replace(script_name, "\\", <<"/">>)
        candidate == Resolve(PathJoin(PROJECT_ROOT, normalised_name), <<>>)
        allowed == \/ is_relative_to(candidate, scripts_dir)
                   \/ is_relative_to(candidate, skills_dir)
    IN  IF ~allowed
        THEN Returned(<<"[SECURITY BLOCKED]", "Script path must be inside scripts/ or skills/">>, FALSE)
        ELSE IF ~SuffixIsPy(candidate)
        THEN Returned(<<"[SECURITY BLOCKED]", "Only .py files are allowed.">>, FALSE)
        ELSE IF \E i \in 1..Len(args) : ~arg_pattern(args[i])
        THEN Returned(<<"[SECURITY BLOCKED]", "Argument contains forbidden characters">>, FALSE)
        ELSE IF \E k \in DOMAIN env_vars : ~env_key_pattern(k)
        THEN Returned(<<"[SECURITY BLOCKED]", "Env var key is invalid">>, FALSE)
        ELSE IF \E k \in DOMAIN env_vars : ~env_val_pattern(env_vars[k])
        THEN Returned(<<"[SECURITY BLOCKED]", "Env var value is invalid">>, FALSE)
        ELSE IF ~exists
        THEN Returned(<<"[ERROR]", "Script not found">>, FALSE)
        ELSE IF outcome = "timeout"
        THEN Returned(<<"[ERROR]", "Script timed out after 120s">>, TRUE)
        ELSE IF outcome = "exit_nonzero"
        THEN Returned(<<"stdout", "[EXIT CODE]">>, TRUE)
        ELSE Returned(<<"stdout">>, TRUE)

\* no request to safe_py_runner is under way
NoPyRequest ==
    /\ py_script_name = <<>>
    /\ py_args = <<>>
    /\ py_env_vars = <<>>
    /\ py_exists = FALSE
    /\ py_result = NoResult


(* ---------------- nodes.py: _to_windows_paths --------------------------- *)

\* the characters of an instruction text: a letter, a digit, the hyphen, the
\* two separators, the colon and the blank
TextChars == {"a", "1", "-", "/", "\\", ":", " "}
Texts == UNION {[1..n -> TextChars] : n \in 0..MaxTextLen}

\* [a-zA-Z]
Letters == {"a"}
\* [a-zA-Z0-9_.], the characters a path segment may begin with
SegmentStart == {"a", "1"}
\* [a-zA-Z0-9_.\-], the characters a path segment may go on with
SegmentChars == {"a", "1", "-"}

\* the end of the longest run of segment characters that begins at s
RECURSIVE SegmentEnd(_, _)
SegmentEnd(text, s) ==
    IF s + 1 <= Len(text) /\ text[s + 1] \in SegmentChars
    THEN SegmentEnd(text, s + 1) ELSE s

\* the end of the "/segment" continuations that follow a segment ending at e
RECURSIVE ContinuationsEnd(_, _)
ContinuationsEnd(text, e) ==
    IF e + 2 <= Len(text) /\ text[e + 1] = "/" /\ text[e + 2] \in SegmentStart
    THEN ContinuationsEnd(text, SegmentEnd(text, e + 2)) ELSE e

\* _UNIX_PATH_RE matched at position s: the end of the match, 0 when there
\* is none.  The two lookbehinds, a first segment, and at least one
\* "/segment" continuation; every quantifier is greedy and a segment holds
\* no "/", so the match is the longest one.
_UNIX_PATH_RE(text, s) ==
    IF /\ ~(s >= 3 /\ text[s - 2] \in Letters /\ text[s - 1] = ":")
       /\ ~(s >= 2 /\ text[s - 1] = "/")
       /\ text[s] \in SegmentStart
    THEN LET first == SegmentEnd(text, s)
             last == ContinuationsEnd(text, first)
         IN  IF last > first THEN last ELSE 0
    ELSE 0

\* str.replace(old, new, 1) for a one-character `old`
str_replace_first(text, old, new) ==
    IF \A i \in 1..Len(text) : text[i] # old THEN text
    ELSE LET i == CHOOSE j \in 1..Len(text) :
                      text[j] = old /\ \A k \in 1..(j - 1) : text[k] # old
         IN  SubSeq(text, 1, i - 1) \o new \o SubSeq(text, i + 1, Len(text))

\* mutant: only the first separator of each path is converted
RECURSIVE re_sub_first_separator(_, _)
re_sub_first_separator(text, s) ==
    IF s > Len(text) THEN <<>>
    ELSE LET e == _UNIX_PATH_RE(text, s)
         IN  IF e = 0 THEN <<text[s]>> \o re_sub_first_separator(text, s + 1)
             ELSE str_replace_first(SubSeq(text, s, e), "/", <<"\\">>)
                      \o re_sub_first_separator(text, e + 1)

_to_windows_paths_first_separator(text) == re_sub_first_separator(text, 1)

\* _UNIX_PATH_RE.sub(_replace, text) from position s on: the matches are
\* found left to right in the text as it was, they do not overlap, and in
\* each of them every "/" becomes a backslash
RECURSIVE re_sub(_, _)
re_sub(text, s) ==
    IF s > Len(text) THEN <<>>
    ELSE LET e == _UNIX_PATH_RE(text, s)
         IN  IF e = 0 THEN <<text[s]>> \o re_sub(text, s + 1)
             ELSE str_replace(SubSeq(text, s, e), "/", <<"\\">>) \o re_sub(text, e + 1)

_to_windows_paths(text) == re_sub(text, 1)

\* no pass of evaluator_agent has been looked into
NoEvalPass ==
    eval_pass = [entered |-> FALSE, returned |-> FALSE, entry_retry_count |-> 0,
                 tool_rounds |-> 0, verdict_requests |-> 0, local_messages |-> <<>>]

\* no normalisation is under way
NoNormRequest ==
    /\ norm_kind = "none"
    /\ norm_in = <<>>
    /\ norm_tool = "git_status"
    /\ norm_out = <<>>
    /\ norm_done = FALSE

(* ---------------- main.py: learnings written to skills.md -------------- *)

\* str.find: the 0-based index of the first occurrence, -1 when there is none
str_find(text, pattern) ==
    LET hits == {i \in 1..(Len(text) - Len(pattern) + 1) :
                    SubSeq(text, i, i + Len(pattern) - 1) = pattern}
    IN  IF hits = {} THEN -1
        ELSE (CHOOSE i \in hits : \A j \in hits : i <= j) - 1

\* f"## {section}"
SectionHeader(section) == <<"#", "#", " ">> \o section

\* f"\n### [{timestamp}]\n{content}\n"
LearningEntry(content) ==
    <<"\n", "#", "#", "#", " ", "[timestamp]", "\n">> \o content \o <<"\n">>

\* mutant: the entry is put right after the header text
_append_skill_learning_after_header(text, section, content) ==
    LET section_header == SectionHeader(section)
        existing == IF str_find(text, section_header) = -1
                    THEN text \o <<"\n", "\n">> \o section_header \o <<"\n">>
                    ELSE text
        insert_pos == str_find(existing, section_header) + Len(section_header)
    IN  SubSeq(existing, 1, insert_pos) \o LearningEntry(content)
            \o SubSeq(existing, insert_pos + 1, Len(existing))

\* the text _append_skill_learning writes back, given the text it read
_append_skill_learning(text, section, content) ==
    LET section_header == SectionHeader(section)
        existing == IF str_find(text, section_header) = -1
                    THEN text \o <<"\n", "\n">> \o section_header \o <<"\n">>
                    ELSE text
        entry == LearningEntry(content)
        header_pos == str_find(existing, section_header)
        rest == SubSeq(existing, header_pos + Len(section_header) + 1, Len(existing))
        next_section == str_find(rest, <<"\n", "#", "#", " ">>)
    IN  IF next_section = -1 THEN existing \o entry
        ELSE LET insert_pos == header_pos + Len(section_header) + next_section
             IN  SubSeq(existing, 1, insert_pos) \o entry
                     \o SubSeq(existing, insert_pos + 1, Len(existing))

\* the lines a skill file is made of: two section headers, a third-level
\* heading and a header that repeat the first section's name, body text,
\* and the empty line
FileLines == {<<"#", "#", " ", "S">>, <<"#", "#", " ", "T">>,
              <<"#", "#", "#", " ", "S">>, <<"#", "#", " ", "S", "S">>,
              <<"x">>, <<>>}

SkillFiles ==
    {Join(lines, <<"\n">>) : lines \in UNION {[1..n -> FileLines] : n \in 0..MaxFileLines}}

SectionNames == {<<"S">>, <<"T">>}

\* the contents of an entry
Contents == {<<"c">>, <<>>}

\* the skill file main() read before the run
SkillFile0 == <<"skill">>

\* f"Step {step.index}: {step.instruction}"
StepInfo(step) == <<"Step", ToString(step.index), ":", step.optimizer_instruction>>

\* the text _save_step_evaluation writes back
_save_step_evaluation(text, step_info, evaluation) ==
    IF evaluation.verdict = "PASS"
    THEN _append_skill_learning(text, <<"Success Cases">>,
             <<"**Step:**">> \o step_info \o <<"\n", "**Feedback:**", evaluation.feedback,
               "\n", "**Key Outputs:**", ToString(evaluation.key_outputs), "\n">>)
    ELSE _append_skill_learning(text, <<"Failure Cases">>,
             <<"**Step:**">> \o step_info \o <<"\n", "**Feedback:**", evaluation.feedback, "\n">>)

\* the body of run's loop over the streamed states, for one state: the
\* evaluation is saved when the step index has moved on since the state
\* before (prev_step_index is the index the loop saw last)
stream_loop_body(text, plan, prev_step_index, current_idx, last_eval_json) ==
    IF last_eval_json # "" /\ current_idx # prev_step_index
           /\ prev_step_index < Len(plan)
    THEN _save_step_evaluation(text, StepInfo(plan[prev_step_index + 1]),
                               model_validate_json(last_eval_json))
    ELSE text

\* _save_human_feedback
_save_human_feedback(text, feedback) ==
    _append_skill_learning(text, <<"Human Feedback">>, feedback)

\* no call of _append_skill_learning is under way
NoMdRequest ==
    /\ md_existing = <<>>
    /\ md_section = <<>>
    /\ md_content = <<>>
    /\ md_done = FALSE

(* ---------------------------- Init ------------------------------------- *)

\* main.run's initial_state, before the graph is entered
Init ==
    /\ steps = <<>>
    /\ current_step_index = 0
    /\ step_retry_count = 0
    /\ max_retries \in 0..MaxRetries
    /\ skill_memory = <<>>
    /\ messages = <<>>
    /\ last_evaluation = ""
    /\ step_tool_call_count = 0
    /\ current_loop_count = 0
    /\ plan_approved = FALSE
    /\ node = "skill_parser"
    /\ prev = "start"
    /\ cleared = 0
    /\ opt_eval_count = 0
    /\ operator_answer = ""
    /\ plan_decision = "pending"
    /\ commits = 0
    /\ skill_file = SkillFile0
    /\ NoMdRequest
    /\ NoNormRequest
    /\ cli_tool_name = "git_status"
    /\ cli_params = <<>>
    /\ cli_result = NoResult
    /\ NoPyRequest
    /\ NoEvalPass

(* --------------------------- nodes ------------------------------------- *)

\* Node 0: the planner's structured output is a plan of n steps; the graph
\* then interrupts (interrupt_after) until the operator resumes it
planner ==
    /\ node = "skill_parser"
    /\ UNCHANGED <<tool_vars, operator_answer>>
    /\ UNCHANGED <<plan_decision, skill_file, commits>>
    /\ \E n \in 0..MaxSteps :
           steps' = [i \in 1..n |-> StepSchema(i - 1)]
    /\ current_step_index' = 0
    /\ step_retry_count' = 0
    /\ current_loop_count' = 0
    /\ skill_memory' = <<>>
    /\ last_evaluation' = ""
    /\ plan_approved' = FALSE
    /\ step_tool_call_count' = 0
    /\ node' = "plan_review"
    /\ prev' = "skill_parser"
    /\ cleared' = 0
    /\ UNCHANGED <<max_retries, messages, opt_eval_count>>

\* the answers the operator may type at "Approve this plan? [Y/n]"
Approvals == {<<>>, <<"y">>, <<"n">>, <<"N", "o">>, <<" ", "n">>}

\* str.lower(), on the letters an answer is made of
str_lower(s) ==
    [i \in DOMAIN s |-> CASE s[i] = "N" -> "n"
                          [] s[i] = "O" -> "o"
                          [] s[i] = "Y" -> "y"
                          [] OTHER -> s[i]]

\* a run that takes every answer for an approval
plan_rejected_never(approval) == FALSE

\* approval in ("n", "no"), after strip() and lower()
plan_rejected(approval) ==
    str_lower(str_strip(approval)) \in {<<"n">>, <<"n", "o">>}

\* main.run after parsing: no steps ends the run; otherwise the plan is
\* shown, the operator is asked, a rejection ends the run, and an approval
\* starts the execution at the conditional edge of skill_parser (route_step)
resume_after_plan ==
    /\ node = "plan_review"
    /\ UNCHANGED <<tool_vars, operator_answer, skill_file, commits>>
    /\ \E approval \in Approvals :
           /\ plan_decision' =
                  IF steps = <<>> THEN "no_steps"
                  ELSE IF str_lower(str_strip(approval)) \in {<<"n">>, <<"n", "o">>}
                  THEN "rejected" ELSE "approved"
           /\ node' = IF steps = <<>> \/ plan_rejected(approval) THEN "returned"
                      ELSE Destination(StepEdges, route_step(current_step_index, steps))
    /\ prev' = IF node' = "returned" THEN prev ELSE "plan_review"
    /\ cleared' = 0
    /\ UNCHANGED <<steps, current_step_index, step_retry_count, max_retries,
                   skill_memory, messages, last_evaluation,
                   step_tool_call_count, current_loop_count, plan_approved,
                   opt_eval_count>>

\* the user prompt of a step: <skill_memory> first, then <instruction>
UserPrompt(memory, step) ==
    <<"<skill_memory>">> \o format_skill_memory(memory)
        \o <<"</skill_memory>", "<instruction>", step.optimizer_instruction>>

\* mutant: the tombstones are left out of the update
prepare_messages_no_clear(msgs, memory, step) ==
    <<SystemMessage(<<"OPTIMIZER_SYSTEM">>),
      HumanMessage(UserPrompt(memory, step))>>

\* the "messages" update of prepare_step_context: one RemoveMessage per
\* message of L3, then the system and the user prompt
prepare_messages(msgs, memory, step) ==
    LET remove_msgs == [i \in 1..Len(msgs) |-> RemoveMessage(msgs[i].id)]
    IN  remove_msgs \o <<SystemMessage(<<"OPTIMIZER_SYSTEM">>),
                         HumanMessage(UserPrompt(memory, step))>>

\* Node 1
prepare_step_context ==
    /\ node = "prepare_step_context"
    /\ UNCHANGED tool_vars
    /\ UNCHANGED <<plan_decision, skill_file, commits>>
    /\ operator_answer' = ""
    /\ LET step == steps[current_step_index + 1]
       IN  messages' = add_messages(messages,
                           prepare_messages(messages, skill_memory, step))
    /\ cleared' = Len(messages)
    /\ step_retry_count' = 0
    /\ step_tool_call_count' = 0
    /\ last_evaluation' = ""
    /\ current_loop_count' = 0
    /\ node' = "optimizer_agent"
    /\ prev' = "prepare_step_context"
    /\ UNCHANGED <<steps, current_step_index, max_retries, skill_memory,
                   plan_approved, opt_eval_count>>

\* responses of the tool-using model: n tool calls, or a text with or
\* without the completion marker
OptimizerResponses ==
    {AIMessage(<<>>, n) : n \in 1..MaxToolCalls}
        \cup {AIMessage(<<" ", "[ATTEMPTS_COMPLETE]", "summary">>, 0),
              AIMessage(<<"summary">>, 0)}

\* Node 2, followed by its conditional edge.  llm.invoke either returns a
\* response or raises; nothing in the node, the graph or run catches the
\* exception, so it ends the stream and the run.
optimizer_agent ==
    /\ node = "optimizer_agent"
    /\ UNCHANGED <<tool_vars, operator_answer>>
    /\ UNCHANGED <<plan_decision, skill_file, commits>>
    /\ \/ /\ \E response \in OptimizerResponses :
               /\ response.tool_calls > 1 => current_loop_count = 0
               /\ LET new_messages == add_messages(messages, <<response>>)
                      route == route_optimizer_output(new_messages, current_loop_count)
                  IN  /\ messages' = new_messages
                      /\ step_tool_call_count' = step_tool_call_count + response.tool_calls
                      /\ node' = Destination(OptimizerEdges, route)
                      /\ opt_eval_count' =
                             IF Destination(OptimizerEdges, route) = "evaluator_agent"
                             THEN opt_eval_count + 1 ELSE opt_eval_count
          /\ prev' = "optimizer_agent"
       \/ /\ node' = "aborted"
          /\ prev' = "optimizer_agent: model error"
          /\ UNCHANGED <<messages, step_tool_call_count, opt_eval_count>>
    /\ cleared' = 0
    /\ UNCHANGED <<steps, current_step_index, step_retry_count, max_retries,
                   skill_memory, last_evaluation, current_loop_count,
                   plan_approved>>

\* Node 2b: ToolNode answers every tool call of the last message with one
\* ToolMessage; the loop counter goes up by one
tool_executor ==
    /\ node = "tool_executor"
    /\ UNCHANGED <<tool_vars, operator_answer>>
    /\ UNCHANGED <<plan_decision, skill_file, commits>>
    /\ LET last_msg == messages[Len(messages)]
           results == [i \in 1..last_msg.tool_calls |-> ToolMessage(<<"tool_result">>)]
       IN  messages' = add_messages(messages, results)
    /\ current_loop_count' = current_loop_count + 1
    /\ node' = "optimizer_agent"
    /\ prev' = "tool_executor"
    /\ cleared' = 0
    /\ UNCHANGED <<steps, current_step_index, step_retry_count, max_retries,
                   skill_memory, last_evaluation, step_tool_call_count,
                   plan_approved, opt_eval_count>>

\* the prompt Phase 1 adds to the messages: <skill_memory>, then
\* <success_criteria> with the evaluator_instruction
EvaluatorUserPrompt(memory, step) ==
    <<"<skill_memory>">> \o format_skill_memory(memory)
        \o <<"</skill_memory>", "<success_criteria>", step.evaluator_instruction>>

\* what the tool-using model does when it is asked in Phase 1, request after
\* request: it raises (-1), answers with text (0), or asks for n tools
ModelError == -1
EvaluatorModels ==
    [1..(_EVALUATOR_MAX_TOOL_ROUNDS + 1) -> {ModelError} \cup 0..MaxToolCalls]

\* mutant: the loop admits one more round
RECURSIVE evaluator_phase1_one_more_round(_, _, _, _)
evaluator_phase1_one_more_round(local, model, round_num, eval_tool_call_count) ==
    IF round_num > _EVALUATOR_MAX_TOOL_ROUNDS
    THEN [messages |-> local, tool_rounds |-> round_num, raised |-> FALSE]
    ELSE IF model[round_num + 1] = ModelError
    THEN [messages |-> local, tool_rounds |-> round_num, raised |-> TRUE]
    ELSE
    LET response == AIMessage(<<"verification">>, model[round_num + 1])
        count == eval_tool_call_count + response.tool_calls
        tool_result == [i \in 1..response.tool_calls |->
                            ToolMessage(<<"verification_result">>)]
        anchor == IF count > 0 /\ count % _ANCHOR_EVERY_N_TOOL_CALLS = 0
                  THEN <<HumanMessage(<<"<primary_directive>">>)>> ELSE <<>>
    IN  IF response.tool_calls = 0
        THEN [messages |-> Append(local, response), tool_rounds |-> round_num,
              raised |-> FALSE]
        ELSE evaluator_phase1_one_more_round(
                 Append(local, response) \o tool_result \o anchor,
                 model, round_num + 1, count)

\* Phase 1 of evaluator_agent from round round_num on: the loop over
\* range(_EVALUATOR_MAX_TOOL_ROUNDS) on the local list `messages`.  A round
\* asks the model, appends its response, and stops when it has no tool
\* calls; otherwise the tools run, their results are appended, and an anchor
\* after every third tool call.  tool_rounds counts the rounds in which
\* tools ran.
RECURSIVE evaluator_phase1(_, _, _, _)
evaluator_phase1(local, model, round_num, eval_tool_call_count) ==
    IF round_num >= _EVALUATOR_MAX_TOOL_ROUNDS
    THEN [messages |-> local, tool_rounds |-> round_num, raised |-> FALSE]
    ELSE IF model[round_num + 1] = ModelError
    THEN [messages |-> local, tool_rounds |-> round_num, raised |-> TRUE]
    ELSE
    LET response == AIMessage(<<"verification">>, model[round_num + 1])
        count == eval_tool_call_count + response.tool_calls
        tool_result == [i \in 1..response.tool_calls |->
                            ToolMessage(<<"verification_result">>)]
        anchor == IF count > 0 /\ count % _ANCHOR_EVERY_N_TOOL_CALLS = 0
                  THEN <<HumanMessage(<<"<primary_directive>">>)>> ELSE <<>>
    IN  IF response.tool_calls = 0
        THEN [messages |-> Append(local, response), tool_rounds |-> round_num,
              raised |-> FALSE]
        ELSE evaluator_phase1(Append(local, response) \o tool_result \o anchor,
                              model, round_num + 1, count)

\* the local list Phase 1 starts from
evaluator_local_messages(msgs, memory, step) ==
    <<SystemMessage(<<"EVALUATOR_SYSTEM">>)>> \o msgs
        \o <<HumanMessage(EvaluatorUserPrompt(memory, step))>>

\* mutant: the verdict is kept in last_evaluation only, L3 gets no message
evaluator_agent_returns_no_feedback(verdict, key_outputs) ==
    LET evaluation == EvaluationOutput(verdict, "feedback", key_outputs)
    IN  /\ messages' = messages
        /\ last_evaluation' = model_dump_json(evaluation)
        /\ step_retry_count' = step_retry_count + 1
        /\ node' = Destination(EvaluatorEdges,
                       route_evaluator_output(model_dump_json(evaluation),
                                              step_retry_count + 1,
                                              max_retries))
        /\ prev' = "evaluator_agent"

\* the update evaluator_agent returns for a verdict, and its conditional edge
evaluator_agent_returns(verdict, key_outputs) ==
    LET evaluation == EvaluationOutput(verdict, "feedback", key_outputs)
        feedback_msg == HumanMessage(<<"[Evaluator] Verdict:", verdict,
                                       "Feedback:", evaluation.feedback>>)
    IN  /\ messages' = add_messages(messages, <<feedback_msg>>)
        /\ last_evaluation' = model_dump_json(evaluation)
        /\ step_retry_count' = step_retry_count + 1
        /\ node' = Destination(EvaluatorEdges,
                       route_evaluator_output(model_dump_json(evaluation),
                                              step_retry_count + 1,
                                              max_retries))
        /\ prev' = "evaluator_agent"

\* evaluator_agent raises: the model endpoint failed, in either phase, or
\* the structured output did not validate as an EvaluationOutput; nothing
\* catches the exception, so it ends the stream and the run
evaluator_agent_raises(why) ==
    /\ node' = "aborted"
    /\ prev' = why
    /\ UNCHANGED <<messages, last_evaluation, step_retry_count>>

\* what the request for the structured verdict comes to
Phase2Outcomes == {"verdict", "model error", "malformed verdict"}

\* mutant: the evaluator writes the key_outputs of its verdict to L2 itself
evaluator_agent_appends_outputs ==
    /\ node = "evaluator_agent"
    /\ UNCHANGED <<tool_vars, operator_answer>>
    /\ UNCHANGED <<plan_decision, skill_file, commits>>
    /\ \E verdict \in EvalResult, key_outputs \in KeyOutputs :
           /\ evaluator_agent_returns(verdict, key_outputs)
           /\ skill_memory' = append_skill_memory(skill_memory, key_outputs)
    /\ cleared' = 0
    /\ UNCHANGED <<steps, current_step_index, max_retries,
                   step_tool_call_count, current_loop_count, plan_approved,
                   opt_eval_count>>

\* Node 3, followed by its conditional edge.  Phase 1 works on a local list
\* and leaves nothing in the state; the state is updated from the verdict
\* of Phase 2 alone.
evaluator_agent ==
    /\ node = "evaluator_agent"
    /\ UNCHANGED <<tool_vars, operator_answer>>
    /\ UNCHANGED <<plan_decision, skill_file, commits>>
    /\ \/ \E verdict \in EvalResult, key_outputs \in KeyOutputs :
              evaluator_agent_returns(verdict, key_outputs)
       \/ evaluator_agent_raises("evaluator_agent: model error")
       \/ evaluator_agent_raises("evaluator_agent: malformed verdict")
    /\ cleared' = 0
    /\ UNCHANGED <<steps, current_step_index, max_retries, skill_memory,
                   step_tool_call_count, current_loop_count, plan_approved,
                   opt_eval_count>>

\* Node 4, followed by its conditional edge (route_step)
commit_step ==
    /\ node = "commit_step"
    /\ UNCHANGED <<tool_vars, operator_answer>>
    /\ UNCHANGED plan_decision
    /\ commits' = commits + 1
    /\ skill_file' = stream_loop_body(skill_file, steps, current_step_index,
                                      current_step_index + 1, last_evaluation)
    /\ LET evaluation == model_validate_json(last_evaluation)
       IN  skill_memory' = append_skill_memory(skill_memory, evaluation.key_outputs)
    /\ current_step_index' = current_step_index + 1
    /\ node' = Destination(StepEdges, route_step(current_step_index + 1, steps))
    /\ prev' = "commit_step"
    /\ cleared' = 0
    /\ opt_eval_count' = 0
    /\ UNCHANGED <<steps, step_retry_count, max_retries, messages,
                   last_evaluation, step_tool_call_count, current_loop_count,
                   plan_approved>>

\* what the operator may answer when the graph interrupts for an escalation
OperatorAnswers == {"retry", "skip"}

\* mutant: the resumed node leaves step_retry_count as it found it
human_intervention_keeps_count ==
    /\ node = "human_intervention"
    /\ UNCHANGED tool_vars
    /\ UNCHANGED <<plan_decision, skill_file, commits>>
    /\ \E answer \in OperatorAnswers : operator_answer' = answer
    /\ node' = "prepare_step_context"
    /\ prev' = "human_intervention"
    /\ cleared' = 0
    /\ opt_eval_count' = 0
    /\ UNCHANGED <<steps, current_step_index, step_retry_count, max_retries,
                   skill_memory, messages, last_evaluation,
                   step_tool_call_count, current_loop_count, plan_approved>>

\* mutant: the resumed node moves on to the next step when the operator
\* answers "skip"
human_intervention_skips ==
    /\ node = "human_intervention"
    /\ UNCHANGED tool_vars
    /\ UNCHANGED <<plan_decision, skill_file, commits>>
    /\ \E answer \in OperatorAnswers :
           /\ operator_answer' = answer
           /\ current_step_index' = IF answer = "skip" THEN current_step_index + 1
                                    ELSE current_step_index
    /\ step_retry_count' = 0
    /\ node' = Destination(StepEdges, route_step(current_step_index', steps))
    /\ prev' = "human_intervention"
    /\ cleared' = 0
    /\ opt_eval_count' = 0
    /\ UNCHANGED <<steps, max_retries, skill_memory,
                   messages, last_evaluation, step_tool_call_count,
                   current_loop_count, plan_approved>>

\* graph.py: the graph interrupts before this node; when the operator
\* resumes, the node runs and the edge to prepare_step_context is taken
human_intervention ==
    /\ node = "human_intervention"
    /\ UNCHANGED tool_vars
    /\ UNCHANGED <<plan_decision, skill_file, commits>>
    /\ \E answer \in OperatorAnswers : operator_answer' = answer
    /\ step_retry_count' = 0
    /\ node' = "prepare_step_context"
    /\ prev' = "human_intervention"
    /\ cleared' = 0
    /\ opt_eval_count' = 0
    /\ UNCHANGED <<steps, current_step_index, max_retries, skill_memory,
                   messages, last_evaluation, step_tool_call_count,
                   current_loop_count, plan_approved>>

\* main.run, Phase 4: when the stream of the execution graph ends, at END or
\* at the interrupt before human_intervention (run does not resume it), the
\* operator is asked for feedback, which is saved when it is not blank
Feedbacks == {<<>>, <<" ">>, <<"fb">>}

ask_feedback ==
    /\ node \in {"END", "human_intervention"}
    /\ UNCHANGED <<tool_vars, operator_answer, plan_decision, commits>>
    /\ \E answer \in Feedbacks :
           LET feedback == str_strip(answer)
           IN  skill_file' = IF feedback # <<>>
                             THEN _save_human_feedback(skill_file, feedback)
                             ELSE skill_file
    /\ node' = "returned"
    /\ prev' = "feedback"
    /\ cleared' = 0
    /\ UNCHANGED <<steps, current_step_index, step_retry_count, max_retries,
                   skill_memory, messages, last_evaluation,
                   step_tool_call_count, current_loop_count, plan_approved,
                   opt_eval_count>>

Next ==
    \/ planner
    \/ resume_after_plan
    \/ prepare_step_context
    \/ optimizer_agent
    \/ tool_executor
    \/ evaluator_agent
    \/ commit_step
    \/ human_intervention
    \/ ask_feedback

Spec == Init /\ [][Next]_vars

(* ----------------- the gateway, one request at a time ------------------ *)

\* any request the tool-calling model can make
InitCli ==
    /\ steps = <<>>
    /\ current_step_index = 0
    /\ step_retry_count = 0
    /\ max_retries = 3
    /\ skill_memory = <<>>
    /\ messages = <<>>
    /\ last_evaluation = ""
    /\ step_tool_call_count = 0
    /\ current_loop_count = 0
    /\ plan_approved = FALSE
    /\ node = "tool_executor"
    /\ prev = "start"
    /\ cleared = 0
    /\ opt_eval_count = 0
    /\ operator_answer = ""
    /\ plan_decision = "pending"
    /\ commits = 0
    /\ skill_file = SkillFile0
    /\ NoMdRequest
    /\ NoNormRequest
    /\ cli_tool_name \in ToolNames
    /\ cli_params \in ParamMaps
    /\ cli_result = NoResult
    /\ NoPyRequest
    /\ NoEvalPass

call_safe_cli_executor ==
    /\ cli_result = NoResult
    /\ \E outcome \in RunOutcomes :
           cli_result' = safe_cli_executor(cli_tool_name, cli_params, outcome)
    /\ UNCHANGED <<agent_vars, cli_tool_name, cli_params, py_vars, skill_file, md_vars, norm_vars,
                   eval_pass>>

NextCli == call_safe_cli_executor

SpecCli == InitCli /\ [][NextCli]_vars

\* one request to safe_py_runner, with every other part of the state at rest
InitPy ==
    /\ steps = <<>>
    /\ current_step_index = 0
    /\ step_retry_count = 0
    /\ max_retries = 3
    /\ skill_memory = <<>>
    /\ messages = <<>>
    /\ last_evaluation = ""
    /\ step_tool_call_count = 0
    /\ current_loop_count = 0
    /\ plan_approved = FALSE
    /\ node = "tool_executor"
    /\ prev = "start"
    /\ cleared = 0
    /\ opt_eval_count = 0
    /\ operator_answer = ""
    /\ plan_decision = "pending"
    /\ commits = 0
    /\ skill_file = SkillFile0
    /\ NoMdRequest
    /\ NoNormRequest
    /\ cli_tool_name = "git_status"
    /\ cli_params = <<>>
    /\ cli_result = NoResult
    /\ py_script_name \in ScriptNames
    /\ py_args \in ArgLists
    /\ py_env_vars \in EnvMaps
    /\ py_exists \in BOOLEAN
    /\ py_result = NoResult
    /\ NoEvalPass

call_safe_py_runner ==
    /\ py_result = NoResult
    /\ \E outcome \in RunOutcomes :
           py_result' = safe_py_runner(py_script_name, py_args, py_env_vars,
                                       py_exists, outcome)
    /\ UNCHANGED <<agent_vars, cli_vars, py_script_name, py_args, py_env_vars,
                   py_exists, skill_file, md_vars, norm_vars, eval_pass>>

NextPy == call_safe_py_runner

SpecPy == InitPy /\ [][NextPy]_vars

\* one call of _append_skill_learning on a skill file, with every other part
\* of the state at rest
InitMd ==
    /\ steps = <<>>
    /\ current_step_index = 0
    /\ step_retry_count = 0
    /\ max_retries = 3
    /\ skill_memory = <<>>
    /\ messages = <<>>
    /\ last_evaluation = ""
    /\ step_tool_call_count = 0
    /\ current_loop_count = 0
    /\ plan_approved = FALSE
    /\ node = "returned"
    /\ prev = "start"
    /\ cleared = 0
    /\ opt_eval_count = 0
    /\ operator_answer = ""
    /\ plan_decision = "pending"
    /\ commits = 0
    /\ md_existing \in SkillFiles
    /\ md_section \in SectionNames
    /\ md_content \in Contents
    /\ md_done = FALSE
    /\ skill_file = md_existing
    /\ NoNormRequest
    /\ cli_tool_name = "git_status"
    /\ cli_params = <<>>
    /\ cli_result = NoResult
    /\ NoPyRequest
    /\ NoEvalPass

call_append_skill_learning ==
    /\ ~md_done
    /\ skill_file' = _append_skill_learning(skill_file, md_section, md_content)
    /\ md_done' = TRUE
    /\ UNCHANGED <<agent_vars, cli_vars, py_vars, md_existing, md_section, md_content,
                   norm_vars, eval_pass>>

NextMd == call_append_skill_learning

SpecMd == InitMd /\ [][NextMd]_vars

\* one application of a path-separator normalisation, to an instruction text
\* or to a params mapping under a tool's rules, with every other part of the
\* state at rest
InitNorm ==
    /\ steps = <<>>
    /\ current_step_index = 0
    /\ step_retry_count = 0
    /\ max_retries = 3
    /\ skill_memory = <<>>
    /\ messages = <<>>
    /\ last_evaluation = ""
    /\ step_tool_call_count = 0
    /\ current_loop_count = 0
    /\ plan_approved = FALSE
    /\ node = "skill_parser"
    /\ prev = "start"
    /\ cleared = 0
    /\ opt_eval_count = 0
    /\ operator_answer = ""
    /\ plan_decision = "pending"
    /\ commits = 0
    /\ skill_file = SkillFile0
    /\ NoMdRequest
    /\ \/ /\ norm_kind = "text"
          /\ norm_in \in Texts
          /\ norm_tool = "git_status"
       \/ /\ norm_kind = "params"
          /\ norm_in \in ParamMaps
          /\ norm_tool \in DOMAIN _CONFIG.cli_whitelist
    /\ norm_out = <<>>
    /\ norm_done = FALSE
    /\ cli_tool_name = "git_status"
    /\ cli_params = <<>>
    /\ cli_result = NoResult
    /\ NoPyRequest
    /\ NoEvalPass

call_to_windows_paths ==
    /\ norm_kind = "text"
    /\ ~norm_done
    /\ norm_out' = _to_windows_paths(norm_in)
    /\ norm_done' = TRUE
    /\ UNCHANGED <<agent_vars, cli_vars, py_vars, skill_file, md_vars,
                   norm_kind, norm_in, norm_tool, eval_pass>>

call_normalise_path_params ==
    /\ norm_kind = "params"
    /\ ~norm_done
    /\ norm_out' = _normalise_path_params(norm_in, _CONFIG.cli_whitelist[norm_tool].params)
    /\ norm_done' = TRUE
    /\ UNCHANGED <<agent_vars, cli_vars, py_vars, skill_file, md_vars,
                   norm_kind, norm_in, norm_tool, eval_pass>>

NextNorm ==
    \/ call_to_windows_paths
    \/ call_normalise_path_params

SpecNorm == InitNorm /\ [][NextNorm]_vars

\* one pass of evaluator_agent, entered with some retries behind it and an L3
\* that holds the optimizer's work, with every other part of the state at rest
EvaluatorEntryL3 ==
    LET step == StepSchema(0)
    IN  { add_messages(prepare_messages(<<>>, <<>>, step), work) :
            work \in { <<AIMessage(<<"summary">>, 0)>>,
                       <<AIMessage(<<>>, 1), ToolMessage(<<"tool_result">>),
                         AIMessage(<<"summary">>, 0)>> } }

InitEval ==
    /\ steps = <<StepSchema(0)>>
    /\ current_step_index = 0
    /\ step_retry_count \in 0..(MaxRetries - 1)
    /\ max_retries = MaxRetries
    /\ skill_memory = <<>>
    /\ messages \in EvaluatorEntryL3
    /\ last_evaluation = ""
    /\ step_tool_call_count = 0
    /\ current_loop_count = 0
    /\ plan_approved = FALSE
    /\ node = "evaluator_agent"
    /\ prev = "optimizer_agent"
    /\ cleared = 0
    /\ opt_eval_count = 1
    /\ operator_answer = ""
    /\ plan_decision = "approved"
    /\ commits = 0
    /\ skill_file = SkillFile0
    /\ NoMdRequest
    /\ NoNormRequest
    /\ cli_tool_name = "git_status"
    /\ cli_params = <<>>
    /\ cli_result = NoResult
    /\ NoPyRequest
    /\ NoEvalPass

\* evaluator_agent with its inside recorded: Phase 1 on the local list, then
\* the one request for the structured verdict on that list, then the update
call_evaluator_agent ==
    /\ node = "evaluator_agent"
    /\ ~eval_pass.entered
    /\ \E model \in EvaluatorModels, outcome \in Phase2Outcomes :
           LET phase1 == evaluator_phase1(
                             evaluator_local_messages(messages, skill_memory,
                                                      steps[current_step_index + 1]),
                             model, 0, 0)
               pass == [entered |-> TRUE,
                        returned |-> ~phase1.raised /\ outcome = "verdict",
                        entry_retry_count |-> step_retry_count,
                        tool_rounds |-> phase1.tool_rounds,
                        verdict_requests |-> IF phase1.raised THEN 0 ELSE 1,
                        local_messages |-> phase1.messages]
           IN  /\ eval_pass' = pass
               /\ IF phase1.raised
                  THEN evaluator_agent_raises("evaluator_agent: model error")
                  ELSE IF outcome # "verdict"
                  THEN evaluator_agent_raises(
                           IF outcome = "model error"
                           THEN "evaluator_agent: model error"
                           ELSE "evaluator_agent: malformed verdict")
                  ELSE \E verdict \in EvalResult, key_outputs \in KeyOutputs :
                           evaluator_agent_returns(verdict, key_outputs)
    /\ cleared' = 0
    /\ UNCHANGED <<steps, current_step_index, max_retries, skill_memory,
                   step_tool_call_count, current_loop_count, plan_approved,
                   opt_eval_count, operator_answer, plan_decision, commits,
                   skill_file,
                   cli_vars, py_vars, md_vars, norm_vars>>

NextEval == call_evaluator_agent

SpecEval == InitEval /\ [][NextEval]_vars


(* ----------------------------------------------------------------------- *)
(* Properties of the execution graph                                       *)
(* ----------------------------------------------------------------------- *)

HasToolCalls(m) == m.tool_calls > 0

Contains(content, token) == \E k \in 1..Len(content) : content[k] = token

\* C1: between the moment a step becomes current (or is escalated) and the
\* next commit or escalation, the transition optimizer_agent ->
\* evaluator_agent is taken at most max_retries + 1 times.
C1_BoundedRetries == opt_eval_count <= max_retries + 1

\* a step is escalated after its retry budget of evaluator passes, with tool
\* executions in between
C1_Witness ==
    /\ node = "human_intervention"
    /\ max_retries >= 2
    /\ opt_eval_count = max_retries
    /\ current_loop_count > 0

\* C2: the route taken after evaluator_agent is the decision table on the
\* verdict and the already incremented step_retry_count: PASS -> commit_step,
\* FAIL below max_retries -> optimizer_agent, FAIL at or above max_retries ->
\* human_intervention.
C2_RoutingAfterEvaluate ==
    prev = "evaluator_agent" =>
        LET verdict == model_validate_json(last_evaluation).verdict
        IN  /\ verdict = "PASS" => node = "commit_step"
            /\ (verdict = "FAIL" /\ step_retry_count < max_retries)
                   => node = "optimizer_agent"
            /\ (verdict = "FAIL" /\ step_retry_count >= max_retries)
                   => node = "human_intervention"

\* a FAIL that exhausts a budget of at least two passes
C2_Witness ==
    /\ prev = "evaluator_agent"
    /\ model_validate_json(last_evaluation).verdict = "FAIL"
    /\ max_retries >= 2
    /\ step_retry_count = max_retries
    /\ node = "human_intervention"

\* C3 (as claimed): right after every commit_step, step_retry_count = 0 and
\* L3 is empty.
C3_StepAtomicity ==
    prev = "commit_step" => (step_retry_count = 0 /\ messages = <<>>)

\* C4: every commit extends skill_memory: the old memory is a prefix of the
\* new one; empty key_outputs leave it unchanged, otherwise one "k=v" line
\* per entry is appended, after a newline when the old memory is non-empty.
C4_MemoryMonotonic ==
    [][node = "commit_step" =>
          LET key_outputs == model_validate_json(last_evaluation).key_outputs
              lines == [i \in 1..Len(key_outputs) |->
                           <<key_outputs[i][1], "=", key_outputs[i][2]>>]
          IN  /\ IsPrefix(skill_memory, skill_memory')
              /\ key_outputs = <<>> => skill_memory' = skill_memory
              /\ key_outputs # <<>> =>
                     skill_memory' =
                         skill_memory
                             \o (IF skill_memory # <<>> THEN <<"\n">> ELSE <<>>)
                             \o Join(lines, <<"\n">>)]_vars

\* two commits with key outputs: the second appended after a newline
C4_Witness ==
    /\ prev = "commit_step"
    /\ current_step_index = 2
    /\ skill_memory = <<"k1", "=", "v1", "\n", "k2", "=", "v2", "\n",
                        "k1", "=", "v1", "\n", "k2", "=", "v2">>

\* C5: 0 <= current_step_index <= len(steps); the step nodes are entered
\* only with current_step_index < len(steps); and route_step leads to END
\* exactly when current_step_index >= len(steps).
C5_StepIndexInRange ==
    /\ 0 <= current_step_index
    /\ current_step_index <= Len(steps)
    /\ node \in {"prepare_step_context", "optimizer_agent", "tool_executor",
                 "evaluator_agent", "commit_step"}
           => current_step_index < Len(steps)
    /\ prev \in {"plan_review", "commit_step"}
           => (node = "END" <=> current_step_index >= Len(steps))

\* the commit of the last step of a plan of two ends the run
C5_Witness ==
    /\ prev = "commit_step"
    /\ node = "END"
    /\ Len(steps) >= 2
    /\ current_step_index = Len(steps)

\* C6 (as claimed): a response with tool calls at current_loop_count =
\* STUCK_THRESHOLD + 1 is followed by prepare_step_context.
C6_StuckLoopTrigger ==
    (/\ prev = "optimizer_agent"
     /\ HasToolCalls(messages[Len(messages)])
     /\ current_loop_count = _STUCK_LOOP_THRESHOLD + 1)
        => node = "prepare_step_context"

\* C7: right after prepare_step_context, L3 is exactly [system, user] and
\* step_retry_count, step_tool_call_count, current_loop_count are 0 and
\* last_evaluation is empty.
C7_PrepareResets ==
    prev = "prepare_step_context" =>
        /\ MessageTypes(messages) = <<"system", "human">>
        /\ step_retry_count = 0
        /\ step_tool_call_count = 0
        /\ current_loop_count = 0
        /\ last_evaluation = ""

\* prepare_step_context re-entered for the first step (after an escalation)
\* with a non-empty L3 to clear
C7_Witness ==
    /\ prev = "prepare_step_context"
    /\ current_step_index = 0
    /\ cleared > 2

\* C8 (as claimed): once the cumulative step_tool_call_count has reached a
\* multiple of ANCHOR_EVERY_N_TOOL_CALLS and those tool calls have run, L3
\* holds a <primary_directive> anchor.
C8_AnchorPeriodicity ==
    (/\ prev = "tool_executor"
     /\ step_tool_call_count > 0
     /\ step_tool_call_count % _ANCHOR_EVERY_N_TOOL_CALLS = 0)
        => \E i \in 1..Len(messages) :
               Contains(messages[i].content, "<primary_directive>")

(* ----------------------------------------------------------------------- *)
(* Properties of the Tool Security Gateway                                 *)
(* ----------------------------------------------------------------------- *)

\* the call returned a string carrying neither failure tag
ReturnedUntagged ==
    /\ cli_result # NoResult
    /\ cli_result.raised = ""
    /\ ~Contains(cli_result.text, "[SECURITY BLOCKED]")
    /\ ~Contains(cli_result.text, "[ERROR]")

\* the whole of `value` is in the language of the declared regex
FullyMatches(rule, value) ==
    /\ Len(value) >= rule.min_len
    /\ {value[i] : i \in 1..Len(value)} \subseteq rule.class

DeclaredSlots(tool_name) == _CONFIG.cli_whitelist[tool_name].params

C10_NeverRaises == cli_result.raised = ""

\* the command the request's template yields once every supplied value is
\* normalised and quoted; <<>> when a slot of the template has no value
AssembledCommand(tool_name, params) ==
    LET spec == _CONFIG.cli_whitelist[tool_name]
        normalised == _normalise_path_params(params, spec.params)
        piece(part) == IF part[1] = "lit" THEN <<part[2]>>
                       ELSE IF part[2] \in DOMAIN normalised
                       THEN shlex_quote(normalised[part[2]])
                       ELSE <<>>
    IN  Join([i \in 1..Len(spec.template) |-> piece(spec.template[i])], <<>>)

TemplateSlots(tool_name) ==
    LET template == _CONFIG.cli_whitelist[tool_name].template
    IN  {template[i][2] : i \in {j \in 1..Len(template) : template[j][1] = "slot"}}

\* a declared slot whose normalised value is outside its regex
SlotMismatch(tool_name, params) ==
    \E i \in 1..Len(DeclaredSlots(tool_name)) :
        LET decl == DeclaredSlots(tool_name)[i]
            normalised == _normalise_path_params(params, DeclaredSlots(tool_name))
        IN  ~FullyMatches(decl[2], DictGet(normalised, decl[1], <<>>))

\* a blocked pattern occurs in the fully interpolated command
BlockedHit(tool_name, params) ==
    /\ TemplateSlots(tool_name) \subseteq DOMAIN params
    /\ \E i \in 1..Len(_CONFIG.blocked_patterns) :
           re_search(_CONFIG.blocked_patterns[i], AssembledCommand(tool_name, params))

\* the three grounds on which a request is refused
Refused(tool_name, params) ==
    \/ tool_name \notin DOMAIN _CONFIG.cli_whitelist
    \/ SlotMismatch(tool_name, params)
    \/ BlockedHit(tool_name, params)

ResolvedScript ==
    Resolve(PathJoin(PROJECT_ROOT, str_replace(py_script_name, "\\", <<"/">>)), <<>>)

UnderApprovedRoot ==
    \/ IsPrefix(scripts_dir, ResolvedScript)
    \/ IsPrefix(skills_dir, ResolvedScript)

\* every character of `value` is in `class`
SolelyOf(class, value) == {value[i] : i \in 1..Len(value)} \subseteq class

ArgsRestricted == \A i \in 1..Len(py_args) : SolelyOf(RestrictedAlphabet, py_args[i])

EnvRestricted ==
    \A k \in DOMAIN py_env_vars :
        /\ Len(k) >= 1
        /\ k[1] = "A"
        /\ SolelyOf({"A", "1"}, Tail(k))
        /\ SolelyOf(RestrictedAlphabet, py_env_vars[k])

\* C12 (as claimed): a subprocess is spawned only for a script under an
\* approved root, with suffix .py, whose args and env values consist solely
\* of the restricted alphabet, whose env keys match [A-Z_][A-Z0-9_]*, and
\* that exists; a request failing one of the first four conditions returns
\* a [SECURITY BLOCKED] string and runs nothing.
C12_SpawnOnlyIfValid ==
    LET valid == /\ UnderApprovedRoot
                 /\ SuffixIsPy(ResolvedScript)
                 /\ ArgsRestricted
                 /\ EnvRestricted
    IN  /\ py_result.spawned => (valid /\ py_exists)
        /\ (py_result # NoResult /\ ~valid) =>
               (py_result.text[1] = "[SECURITY BLOCKED]" /\ ~py_result.spawned)

\* C13 (as claimed): a bare .py filename that does not exist, with no args
\* and no env, is answered "[ERROR] Script not found" and not
\* "[SECURITY BLOCKED]".
C13_MissingScript ==
    (/\ py_result # NoResult
     /\ py_script_name = <<"a.py">>
     /\ py_args = <<>>
     /\ py_env_vars = <<>>
     /\ ~py_exists)
        => /\ Contains(py_result.text, "[ERROR]")
           /\ Contains(py_result.text, "Script not found")
           /\ ~Contains(py_result.text, "[SECURITY BLOCKED]")

(* ----------------------------------------------------------------------- *)
(* Routing after the optimizer                                             *)
(* ----------------------------------------------------------------------- *)

\* the last assistant message of L3
LastAssistant(msgs) ==
    msgs[CHOOSE i \in 1..Len(msgs) :
             /\ msgs[i].type = "ai"
             /\ \A j \in (i + 1)..Len(msgs) : msgs[j].type # "ai"]

HasAssistant(msgs) == \E i \in 1..Len(msgs) : msgs[i].type = "ai"

\* the text begins, after leading whitespace, with the completion marker
BeginsWithMarker(content) ==
    \E i \in 1..Len(content) :
        /\ content[i] = "[ATTEMPTS_COMPLETE]"
        /\ \A j \in 1..(i - 1) : content[j] = " "

FailsInL3 ==
    Cardinality({i \in 1..Len(messages) :
                    /\ messages[i].type = "human"
                    /\ Len(messages[i].content) >= 2
                    /\ messages[i].content[1] = "[Evaluator] Verdict:"
                    /\ messages[i].content[2] = "FAIL"})

\* the evaluator has just run and its verdict is FAIL
JustFailed ==
    /\ prev = "evaluator_agent"
    /\ model_validate_json(last_evaluation).verdict = "FAIL"

\* C16 (as claimed): with max_retries = 2 and FAIL on every pass, the
\* first and the second FAIL are followed by optimizer_agent and the third
\* by human_intervention.
C16_EscalateOnThirdFail ==
    (max_retries = 2 /\ JustFailed) =>
        /\ FailsInL3 \in {1, 2} => node = "optimizer_agent"
        /\ FailsInL3 = 3 => node = "human_intervention"

\* C16 (amended): with max_retries = 2 and FAIL on every pass, the first
\* FAIL is followed by optimizer_agent and the second by
\* human_intervention; a third FAIL of the same attempt never happens.
C16_EscalateOnSecondFail ==
    (max_retries = 2 /\ JustFailed) =>
        /\ FailsInL3 = 1 => node = "optimizer_agent"
        /\ FailsInL3 = 2 => node = "human_intervention"
        /\ FailsInL3 <= 2

\* the second FAIL in a row has just escalated
C16_Witness ==
    /\ max_retries = 2
    /\ JustFailed
    /\ FailsInL3 = 2
    /\ node = "human_intervention"

\* C17: when execution continues from human_intervention,
\* step_retry_count becomes 0, the next node is prepare_step_context, and
\* current_step_index and skill_memory are what they were when the
\* escalation was entered.
C17_ResumeAfterEscalate ==
    [][node = "human_intervention" /\ prev' = "human_intervention" =>
          /\ step_retry_count' = 0
          /\ node' = "prepare_step_context"
          /\ current_step_index' = current_step_index
          /\ skill_memory' = skill_memory]_vars

\* the second step was escalated and resumed with a non-empty L2
C17_Witness ==
    /\ prev = "human_intervention"
    /\ node = "prepare_step_context"
    /\ step_retry_count = 0
    /\ current_step_index = 1
    /\ skill_memory # <<>>

\* C18 (as claimed): when the operator answers an escalation with "skip",
\* current_step_index advances by one without a commit_step transition,
\* skill_memory is unchanged, and last_evaluation still holds the feedback
\* of the last verdict.
C18_OperatorSkip ==
    [][(node = "human_intervention" /\ operator_answer' = "skip") =>
          /\ current_step_index' = current_step_index + 1
          /\ skill_memory' = skill_memory
          /\ last_evaluation' # ""
          /\ model_validate_json(last_evaluation').feedback
                 = model_validate_json(last_evaluation).feedback]_vars

(* ----------------------------------------------------------------------- *)
(* Stuck-loop replan                                                       *)
(* ----------------------------------------------------------------------- *)

\* the assistant messages of L3, in order
AssistantTurns(msgs) == SelectSeq(msgs, LAMBDA m : m.type = "ai")

\* since the last PREPARE the optimizer has answered n times, every time
\* with a tool call, and the n-th answer has just been routed
ToolCallTurnsInARow(n) ==
    /\ prev = "optimizer_agent"
    /\ Len(AssistantTurns(messages)) = n
    /\ \A i \in 1..n : AssistantTurns(messages)[i].tool_calls > 0
    /\ \A i \in 1..Len(messages) :
           messages[i].type = "human" => messages[i].content[1] # "[Evaluator] Verdict:"

\* C19 (as claimed): starting from a fresh PREPARE, the ninth tool-call
\* emission in a row is routed to prepare_step_context, after exactly
\* eight tool executions.
C19_NinthEmissionReplans ==
    ToolCallTurnsInARow(_STUCK_LOOP_THRESHOLD + 1) =>
        /\ node = "prepare_step_context"
        /\ current_loop_count = _STUCK_LOOP_THRESHOLD

\* the optimizer has just answered with a tool call past the threshold
StuckTurn ==
    /\ prev = "optimizer_agent"
    /\ HasToolCalls(messages[Len(messages)])
    /\ current_loop_count > _STUCK_LOOP_THRESHOLD

\* C20 (as claimed): a stuck optimizer turn leads into
\* prepare_step_context, never into human_intervention, and leaves
\* skill_memory, current_step_index, steps and max_retries as they were.
C20_ReplanWipesOnlyL3 ==
    [][(node = "optimizer_agent" /\ StuckTurn') =>
          /\ node' = "prepare_step_context"
          /\ UNCHANGED <<skill_memory, current_step_index, steps, max_retries>>]_vars

(* ------------------------ C21 ------------------------------------------ *)

StepNodes == {"prepare_step_context", "optimizer_agent", "tool_executor",
              "evaluator_agent", "commit_step"}

\* C21: no step-execution node runs before the operator has answered the
\* approval prompt, and when the plan is rejected or has no steps none of
\* them runs, nothing is routed to them, and the skill file keeps the text
\* it had when the run began.  (plan_decision never leaves "approved", so
\* the last node that ran not being a step node in every state that is not
\* approved means that no step node ran at all in such a run.)
C21_ApprovalGate ==
    plan_decision # "approved" =>
        /\ prev \notin StepNodes
        /\ node \notin StepNodes
        /\ skill_file = SkillFile0
        /\ messages = <<>>
        /\ skill_memory = <<>>

\* a plan with steps was rejected and the run is over
C21_Witness ==
    /\ plan_decision = "rejected"
    /\ steps # <<>>
    /\ node = "returned"

(* ----------------------------------------------------------------------- *)
(* Learnings written to the skill file                                     *)
(* ----------------------------------------------------------------------- *)

\* text with ins put in after its first k characters
InsertAt(text, k, ins) ==
    SubSeq(text, 1, k) \o ins \o SubSeq(text, k + 1, Len(text))

\* the text pattern occurs in text
Occurs(text, pattern) ==
    \E i \in 1..(Len(text) - Len(pattern) + 1) :
        SubSeq(text, i, i + Len(pattern) - 1) = pattern

\* a "## " heading begins on the line after position k of text
HeadingBeginsAt(text, k) ==
    /\ k + 4 <= Len(text)
    /\ SubSeq(text, k + 1, k + 4) = <<"\n", "#", "#", " ">>

\* the number of characters up to the end of the first "## <section>" in text
HeaderEnd(text, section) ==
    (CHOOSE i \in 1..Len(text) :
        /\ SubSeq(text, i, i + Len(section) + 2) = SectionHeader(section)
        /\ \A j \in 1..(i - 1) :
               SubSeq(text, j, j + Len(section) + 2) # SectionHeader(section))
    + Len(section) + 2

\* C22 as stated: when the header is in the file, the entry is put
\* immediately after the header, ahead of everything the section holds;
\* when it is not, a new section with the entry is appended at end of file.
C22_InsertAfterHeader ==
    md_done =>
        IF Occurs(md_existing, SectionHeader(md_section))
        THEN skill_file = InsertAt(md_existing, HeaderEnd(md_existing, md_section),
                                   LearningEntry(md_content))
        ELSE skill_file = md_existing \o <<"\n", "\n">> \o SectionHeader(md_section)
                              \o <<"\n">> \o LearningEntry(md_content)

\* C22 amended: when the header text is in the file, the entry is put at the
\* end of the section, after everything the section holds: directly before
\* the first "## " heading that begins after the first occurrence of the
\* header text, or at end of file when no heading follows; when the header
\* text is not in the file, a new section with the entry is appended at end
\* of file.
C22_InsertAtEndOfSection ==
    md_done =>
        IF Occurs(md_existing, SectionHeader(md_section))
        THEN \E k \in HeaderEnd(md_existing, md_section)..Len(md_existing) :
                 /\ skill_file = InsertAt(md_existing, k, LearningEntry(md_content))
                 /\ k = Len(md_existing) \/ HeadingBeginsAt(md_existing, k)
                 /\ \A j \in HeaderEnd(md_existing, md_section)..(k - 1) :
                        ~HeadingBeginsAt(md_existing, j)
        ELSE skill_file = md_existing \o <<"\n", "\n">> \o SectionHeader(md_section)
                              \o <<"\n">> \o LearningEntry(md_content)

\* an entry was added to a section that held a line already and is followed
\* by another section
C22_Witness ==
    /\ md_done
    /\ md_section = <<"S">>
    /\ md_existing = <<"#", "#", " ", "S", "\n", "x", "\n", "#", "#", " ", "T">>
    /\ skill_file = <<"#", "#", " ", "S", "\n", "x">> \o LearningEntry(md_content)
                        \o <<"\n", "#", "#", " ", "T">>

\* where the entry that was written begins in the skill file: the position of
\* its "### [timestamp]" line (the files the call starts from hold none)
EntryStart ==
    CHOOSE i \in 1..Len(skill_file) :
        /\ skill_file[i] = "[timestamp]"
        /\ \A j \in 1..(i - 1) : skill_file[j] # "[timestamp]"

\* a "## " heading line begins at position p of text
HeadingLineAt(text, p) ==
    /\ p + 2 <= Len(text)
    /\ SubSeq(text, p, p + 2) = <<"#", "#", " ">>
    /\ p = 1 \/ text[p - 1] = "\n"

\* the line of text that begins at position p
LineAt(text, p) ==
    LET ends == {e \in p..Len(text) : text[e] = "\n"}
    IN  IF ends = {} THEN SubSeq(text, p, Len(text))
        ELSE SubSeq(text, p, (CHOOSE e \in ends : \A f \in ends : e <= f) - 1)

\* the entry lies in the section called section: the last "## " heading
\* line before the entry is "## <section>"
EntryInSection(section) ==
    \E p \in 1..EntryStart :
        /\ HeadingLineAt(skill_file, p)
        /\ LineAt(skill_file, p) = SectionHeader(section)
        /\ \A q \in (p + 1)..EntryStart : ~HeadingLineAt(skill_file, q)

\* the skill file is the text the call found with one contiguous insertion:
\* the entry alone, or a new header and the entry
OneContiguousInsertion ==
    \E k \in 0..Len(md_existing) :
        \/ skill_file = InsertAt(md_existing, k, LearningEntry(md_content))
        \/ skill_file = InsertAt(md_existing, k,
                            <<"\n", "\n">> \o SectionHeader(md_section)
                                \o <<"\n">> \o LearningEntry(md_content))

\* C23: the updated text is the old text with one contiguous insertion, the
\* entry alone or a new header and the entry, so that nothing of the old
\* text is removed, changed or reordered; and the entry lies in the section
\* that was named, not in another one.
C23_PreservedAndInNamedSection ==
    md_done => OneContiguousInsertion /\ EntryInSection(md_section)

(* ------------------------ C24 ------------------------------------------ *)

\* C24: every verdict the evaluator emitted during a run is in the skill
\* file when the run is over, a PASS under "## Success Cases" and a FAIL
\* under "## Failure Cases"; in particular the last one emitted, which
\* last_evaluation still holds when run returns.
C24_VerdictsPersisted ==
    (node = "returned" /\ plan_decision = "approved" /\ last_evaluation # "") =>
        LET evaluation == model_validate_json(last_evaluation)
        IN  /\ evaluation.verdict = "PASS" =>
                   Occurs(skill_file, SectionHeader(<<"Success Cases">>))
            /\ evaluation.verdict = "FAIL" =>
                   /\ Occurs(skill_file, SectionHeader(<<"Failure Cases">>))
                   /\ Occurs(skill_file, <<"**Feedback:**", evaluation.feedback>>)

(* ------------------------ C25 ------------------------------------------ *)

\* a value made of path-safe characters only (of the characters of the
\* model, the letter and the backslash), and not empty
PathSafe(value) ==
    /\ value # <<>>
    /\ \A i \in 1..Len(value) : value[i] \in {"a", "\\"}

\* C25: in a command _validate_and_build assembled, every slot value made of
\* path-safe characters only stands verbatim and the command holds no single
\* quote; a slot value that is not path-safe stands wrapped in double quotes.
C25_PerSlotQuoting ==
    (cli_result # NoResult /\ cli_result.spawned) =>
        LET built == _validate_and_build(cli_tool_name, cli_params)
            values == _normalise_path_params(
                          cli_params, _CONFIG.cli_whitelist[cli_tool_name].params)
        IN  \A k \in TemplateSlots(cli_tool_name) :
                IF PathSafe(values[k])
                THEN /\ Occurs(built.command, values[k])
                     /\ ~Contains(built.command, "'")
                ELSE Occurs(built.command, <<"\"">> \o values[k] \o <<"\"">>)

(* ------------------------ C26 ------------------------------------------ *)

\* C26: path-separator normalisation is idempotent: applying
\* _normalise_path_params to the mapping it returned, under the same rules,
\* returns that mapping, and applying _to_windows_paths to the text it
\* returned returns that text.
C26_NormalisationIdempotent ==
    norm_done =>
        /\ norm_kind = "params" =>
               _normalise_path_params(norm_out, _CONFIG.cli_whitelist[norm_tool].params)
                   = norm_out
        /\ norm_kind = "text" => _to_windows_paths(norm_out) = norm_out

\* a text that is a path of three segments was converted, both separators
C26_Witness ==
    /\ norm_done
    /\ norm_kind = "text"
    /\ norm_in = <<"a", "/", "a", "/", "a">>
    /\ norm_out = <<"a", "\\", "a", "\\", "a">>

(* ----------------------------------------------------------------------- *)
(* The evaluator pass and model failures                                   *)
(* ----------------------------------------------------------------------- *)

\* C27: a model failure inside a step never aborts the run: after an error
\* of the model endpoint in optimizer_agent or evaluator_agent the run goes
\* on (the step is retried within its budget), and after a response that is
\* not a valid verdict the state is that of a FAIL verdict with the feedback
\* "verdict schema violation": step_retry_count went up by one and the FAIL
\* routing was applied.
C27_ModelFailuresHandled ==
    /\ node # "aborted"
    /\ prev = "evaluator_agent: malformed verdict" =>
           /\ last_evaluation # ""
           /\ model_validate_json(last_evaluation).verdict = "FAIL"
           /\ model_validate_json(last_evaluation).feedback = "verdict schema violation"
           /\ step_retry_count >= 1
           /\ node = Destination(EvaluatorEdges,
                         route_evaluator_output(last_evaluation, step_retry_count,
                                                max_retries))

PhaseOneResults(msgs) ==
    {i \in 1..Len(msgs) :
        msgs[i].type = "tool" /\ msgs[i].content = <<"verification_result">>}

\* C29: the tool results of the evaluator's Phase 1 are in L3, the messages
\* of the state, when the pass has requested its verdict: L3 holds every
\* verification result that is in the list the verdict was requested on.
C29_EvidenceInL3 ==
    (eval_pass.entered /\ eval_pass.verdict_requests = 1) =>
        Cardinality(PhaseOneResults(messages))
            = Cardinality(PhaseOneResults(eval_pass.local_messages))

(* ------------------------ C30 ------------------------------------------ *)

\* C30: current_step_index is changed by commit_step alone, which adds 1 to
\* it: every step of the run that changes it is a step of commit_step that
\* raises it by exactly 1 (the planner writes the 0 it already holds, and
\* the other nodes leave it alone), so that the number of commits is always
\* current_step_index.
C30_IndexCountsCommits ==
    /\ [](commits = current_step_index)
    /\ [][current_step_index' # current_step_index =>
              /\ node = "commit_step"
              /\ prev' = "commit_step"
              /\ current_step_index' = current_step_index + 1]_vars

\* the second commit of a run has just raised the index from 1 to 2
C30_Witness ==
    /\ prev = "commit_step"
    /\ commits = 2
    /\ current_step_index = 2

(* ----------------------------------------------------------------------- *)
(* Frames of L2 and L3, counters, routing                                  *)
(* ----------------------------------------------------------------------- *)

\* the "k=v" lines of a skill memory
MemoryLines(memory) == Cardinality({i \in 1..Len(memory) : memory[i] = "="})

\* C31: skill_memory is mutated by commit only: a step of the run that is
\* not a step of commit_step leaves it as it was, whatever the verdict, the
\* retry, the replan or the escalation it belongs to; and a commit adds the
\* key_outputs of the verdict once, one line per entry.
C31_MemoryWrittenByCommitOnly ==
    [][IF node = "commit_step" /\ prev' = "commit_step"
       THEN MemoryLines(skill_memory') =
                MemoryLines(skill_memory)
                    + Len(model_validate_json(last_evaluation).key_outputs)
       ELSE skill_memory' = skill_memory]_vars

\* a step that failed once and passed on the retry was committed with its two
\* key outputs: L2 holds them once
C31_Witness ==
    /\ prev = "commit_step"
    /\ step_retry_count = 2
    /\ current_step_index = 1
    /\ MemoryLines(skill_memory) = 2

(* ------------------------ C32 ------------------------------------------ *)

\* a declared slot whose value, as the caller supplied it, is outside its regex
SuppliedMismatch(tool_name, params) ==
    \E i \in 1..Len(DeclaredSlots(tool_name)) :
        ~FullyMatches(DeclaredSlots(tool_name)[i][2],
                      DictGet(params, DeclaredSlots(tool_name)[i][1], <<>>))

\* C32: the regex of each declared slot is applied to the value as the caller
\* supplied it, before the separators are normalised: a request to an
\* allow-listed tool with a supplied value outside its slot's regex is
\* answered "[SECURITY BLOCKED] ... does not match allowed pattern" and
\* nothing is spawned, even when the normalised value is inside the regex.
C32_SuppliedValueValidatedFirst ==
    (/\ cli_result # NoResult
     /\ cli_tool_name \in DOMAIN _CONFIG.cli_whitelist
     /\ SuppliedMismatch(cli_tool_name, cli_params)) =>
        /\ ~cli_result.spawned
        /\ cli_result.raised = ""
        /\ cli_result.text = <<"[SECURITY BLOCKED]", "does not match allowed pattern">>

(* ------------------------ C33 ------------------------------------------ *)

\* an argument that is empty or holds a character outside the alphabet
ArgForbidden ==
    \E i \in 1..Len(py_args) :
        py_args[i] = <<>> \/ ~SolelyOf(RestrictedAlphabet, py_args[i])

\* an environment key that is not [A-Z_][A-Z0-9_]*
EnvKeyForbidden ==
    \E k \in DOMAIN py_env_vars :
        ~(Len(k) >= 1 /\ k[1] = "A" /\ SolelyOf({"A", "1"}, Tail(k)))

\* an environment value that holds a character outside the alphabet
EnvValueForbidden ==
    \E k \in DOMAIN py_env_vars : ~SolelyOf(RestrictedAlphabet, py_env_vars[k])

\* C33: safe_py_runner applies its checks in the order path confinement,
\* .py suffix, args alphabet, env key, env value, file existence, and the
\* first one that fails determines the result; a request with a forbidden
\* arg or env entry for a script that does not exist is answered
\* "[SECURITY BLOCKED]", never "[ERROR] Script not found".
C33_ErrorPrecedence ==
    py_result # NoResult =>
        /\ py_result.raised = ""
        /\ IF ~UnderApprovedRoot
           THEN py_result.text =
                    <<"[SECURITY BLOCKED]", "Script path must be inside scripts/ or skills/">>
           ELSE IF ~SuffixIsPy(ResolvedScript)
           THEN py_result.text = <<"[SECURITY BLOCKED]", "Only .py files are allowed.">>
           ELSE IF ArgForbidden
           THEN py_result.text =
                    <<"[SECURITY BLOCKED]", "Argument contains forbidden characters">>
           ELSE IF EnvKeyForbidden
           THEN py_result.text = <<"[SECURITY BLOCKED]", "Env var key is invalid">>
           ELSE IF EnvValueForbidden
           THEN py_result.text = <<"[SECURITY BLOCKED]", "Env var value is invalid">>
           ELSE IF ~py_exists
           THEN py_result.text = <<"[ERROR]", "Script not found">>
           ELSE py_result.spawned

(* ------------------------ C34 ------------------------------------------ *)

\* the anchors in a message list
Anchors(msgs) ==
    {i \in 1..Len(msgs) :
        msgs[i].type = "human" /\ msgs[i].content = <<"<primary_directive>">>}

\* C34: in Phase 1 an anchor is added to the evaluator's conversation for
\* each multiple of _ANCHOR_EVERY_N_TOOL_CALLS that the cumulative count of
\* the evaluator's tool calls reaches or passes, however the tool calls are
\* spread over the rounds: after the rounds that ran, the conversation holds
\* one anchor per full _ANCHOR_EVERY_N_TOOL_CALLS tool results.
C34_EvaluatorAnchors ==
    eval_pass.entered =>
        Cardinality(Anchors(eval_pass.local_messages))
            = Cardinality(PhaseOneResults(eval_pass.local_messages))
                  \div _ANCHOR_EVERY_N_TOOL_CALLS

(* ------------------------ C35 ------------------------------------------ *)

\* the tool_executor invocations L3 bears witness to: the assistant messages
\* with tool calls that have been answered, each by its tool results
ToolExecutions(msgs) ==
    Cardinality({i \in 1..(Len(msgs) - 1) :
                    msgs[i].type = "ai" /\ msgs[i].tool_calls > 0})

\* C35: in every reachable state current_loop_count is at most
\* _STUCK_LOOP_THRESHOLD + 1 and is the number of tool_executor invocations
\* since the last prepare_step_context, which L3 records because it is
\* cleared by prepare_step_context only; an evaluator FAIL followed by a
\* retry does not reset it.
C35_ToolCycleBounded ==
    /\ current_loop_count <= _STUCK_LOOP_THRESHOLD + 1
    /\ node \in {"optimizer_agent", "tool_executor", "evaluator_agent",
                 "commit_step", "human_intervention"}
           => current_loop_count = ToolExecutions(messages)
    /\ (JustFailed /\ node = "optimizer_agent")
           => current_loop_count = ToolExecutions(messages)

\* tools ran once, the evaluator failed the step, and on the retry tools ran
\* until the counter stood one above the threshold
C35_Witness ==
    /\ current_loop_count = _STUCK_LOOP_THRESHOLD + 1
    /\ FailsInL3 = 1
    /\ ToolExecutions(messages) = _STUCK_LOOP_THRESHOLD + 1
    /\ node = "optimizer_agent"

(* ------------------------ C36 ------------------------------------------ *)

\* the evaluator passes L3 bears witness to: one verdict message per pass
VerdictsInL3 ==
    Cardinality({i \in 1..Len(messages) :
                    /\ messages[i].type = "human"
                    /\ Len(messages[i].content) >= 1
                    /\ messages[i].content[1] = "[Evaluator] Verdict:"})

\* C36: with max_retries >= 1, in every reachable state step_retry_count is
\* between 0 and max_retries; it is the number of evaluator passes since the
\* last prepare_step_context (the verdict messages of L3, which
\* prepare_step_context clears) and 0 right after human_intervention; and
\* evaluator_agent is entered only with step_retry_count < max_retries.
C36_RetryCounter ==
    max_retries >= 1 =>
        /\ 0 <= step_retry_count
        /\ step_retry_count <= max_retries
        /\ step_retry_count =
               (IF prev = "human_intervention" THEN 0 ELSE VerdictsInL3)
        /\ node = "evaluator_agent" => step_retry_count < max_retries

\* the evaluator is entered for the last pass of a budget of two, after a
\* FAIL and a retry in which tools ran
C36_Witness ==
    /\ node = "evaluator_agent"
    /\ max_retries = 2
    /\ step_retry_count = 1
    /\ VerdictsInL3 = 1
    /\ FailsInL3 = 1
    /\ messages[Len(messages) - 1].type = "tool"

(* ------------------------ C37 ------------------------------------------ *)

\* C37 (as claimed): in every reachable state the value each routing function
\* has just returned is a key of the conditional-edge map of the node it
\* routes from: route_step after the plan review and after commit_step,
\* route_optimizer_output after optimizer_agent, route_evaluator_output after
\* evaluator_agent; the graph never stops on an unmapped route.
C37_RoutingTotal ==
    /\ prev \in {"plan_review", "commit_step"}
           => route_step(current_step_index, steps) \in DOMAIN StepEdges
    /\ prev = "optimizer_agent"
           => route_optimizer_output(messages, current_loop_count)
                  \in DOMAIN OptimizerEdges
    /\ prev = "evaluator_agent"
           => route_evaluator_output(last_evaluation, step_retry_count,
                                     max_retries) \in DOMAIN EvaluatorEdges
    /\ node # "error"

(* ------------------------ C38 ------------------------------------------ *)

\* C38: commit_step is entered only from an evaluator pass whose verdict is
\* PASS, and skill_memory changes only in a commit_step that appends the
\* key_outputs of that PASS verdict; so the key_outputs of a FAIL verdict,
\* empty or not, never reach skill_memory.
C38_OnlyPassFeedsMemory ==
    [][/\ node' = "commit_step"
           => /\ node = "evaluator_agent"
              /\ model_validate_json(last_evaluation').verdict = "PASS"
       /\ skill_memory' # skill_memory
           => /\ node = "commit_step"
              /\ prev = "evaluator_agent"
              /\ model_validate_json(last_evaluation).verdict = "PASS"
              /\ skill_memory' =
                     append_skill_memory(
                         skill_memory,
                         model_validate_json(last_evaluation).key_outputs)]_vars

\* the first step is committed with two key outputs; the evaluator then
\* fails the second step with a verdict that carries key outputs, and the
\* memory still holds the two lines of the first step
C38_Witness ==
    /\ JustFailed
    /\ model_validate_json(last_evaluation).key_outputs # <<>>
    /\ current_step_index = 1
    /\ MemoryLines(skill_memory) = 2
    /\ node = "optimizer_agent"

(* ------------------------ C39 ------------------------------------------ *)

\* the message is the feedback message of an evaluator pass with this verdict
IsVerdictMessage(m, verdict) ==
    /\ m.type = "human"
    /\ Len(m.content) = 4
    /\ m.content[1] = "[Evaluator] Verdict:"
    /\ m.content[2] = verdict
    /\ m.content[3] = "Feedback:"

\* C39: an evaluator pass that returns a verdict leaves L3 as it was and
\* appends exactly one message, the feedback message of that verdict, so the
\* optimizer re-entered after a FAIL finds the former L3 followed by the
\* feedback; and every step of optimizer_agent, tool_executor,
\* evaluator_agent, commit_step and human_intervention keeps the L3 it found
\* as a prefix: only prepare_step_context shortens L3.
C39_LoopMessagesPreserved ==
    [][/\ (node = "evaluator_agent" /\ prev' = "evaluator_agent")
           => /\ Len(messages') = Len(messages) + 1
              /\ SubSeq(messages', 1, Len(messages)) = messages
              /\ IsVerdictMessage(messages'[Len(messages')],
                                  model_validate_json(last_evaluation').verdict)
       /\ node \in {"optimizer_agent", "tool_executor", "evaluator_agent",
                    "commit_step", "human_intervention"}
           => IsPrefix(messages, messages')]_vars

\* the optimizer is re-entered after a FAIL: the tool call, its result and
\* the completion text of the failed attempt are still there, followed by
\* the feedback
C39_Witness ==
    /\ node = "optimizer_agent"
    /\ JustFailed
    /\ Len(messages) >= 6
    /\ IsVerdictMessage(messages[Len(messages)], "FAIL")
    /\ messages[Len(messages) - 1].type = "ai"
    /\ messages[Len(messages) - 2].type = "tool"

====
